---- MODULE Spec2Model ----
(***************************************************************************)
(* Model of backend/java_engine.py: the compile-execute-classify pipeline  *)
(* of the Java tutor backend.  Several invocations of execute_java_code    *)
(* run interleaved (one Flask worker thread each); the environment         *)
(* (compiler, JVM, filesystem, operating system) chooses every outcome     *)
(* the code reacts to.                                                     *)
(*                                                                         *)
(* Text is a sequence of lexemes.  A lexeme is one character (" ", "\n",   *)
(* ":", ".", "(", ")", "$", "<", ">", a digit) or a run of word            *)
(* characters ("Main", "java", "at", "ArithmeticException"); adjacent      *)
(* word lexemes read as one word.  An optional value (Python's None or a   *)
(* value) is the empty set or a singleton.                                 *)
(***************************************************************************)
EXTENDS Integers, Sequences, FiniteSets, TLC

\* ------------------------------------------------------------------ bounds
NInv == 2        \* invocations of execute_java_code in one behaviour
NUuid == 2       \* distinct values uuid4() may draw
MaxSpawn == 1    \* processes one submitted program may spawn
NReq == 1        \* HTTP requests in one behaviour
NThread == 3     \* threads calling log_submission at once
MaxRelease == 2  \* calls of _cleanup made outside execute_java_code

Inv == 1..NInv
Uuids == 1..NUuid
Req == 1..NReq
Threads == 1..NThread

\* ------------------------------------------------------- configuration
COMPILE_TIMEOUT == 10
EXECUTE_TIMEOUT == 5
DRAIN_TIMEOUT == 3
MAIN_CLASS == "Main"
SOURCE_FILE == <<MAIN_CLASS, ".", "java">>
TEMP_BASE_DIR == <<"tmp", "java_exec">>

NoneV == {}
Some(v) == {v}

\* ------------------------------------------------------------ text helpers
Digits == {"0", "1", "2", "3", "4", "5", "6", "7", "8", "9"}
DigitVal(d) ==
  CASE d = "0" -> 0 [] d = "1" -> 1 [] d = "2" -> 2 [] d = "3" -> 3 [] d = "4" -> 4
    [] d = "5" -> 5 [] d = "6" -> 6 [] d = "7" -> 7 [] d = "8" -> 8 [] d = "9" -> 9

IsSpace(c) == c \in {" ", "\n", "\t"}
IsPunct(c) == c \in {":", ".", "(", ")", "$", "<", ">", "/", "\"", "EXC_HDR"}
\* \w : letters, digits, underscore
IsWord(c) == ~IsSpace(c) /\ ~IsPunct(c)

IsDigit(c) == c \in Digits
\* [\w.$]
IsNameChar(c) == IsWord(c) \/ c \in {".", "$"}

\* the character classes the regular expressions repeat: \d, \s, \w, [\w.$]
InClass(cls, c) ==
  CASE cls = "d" -> IsDigit(c)
    [] cls = "s" -> IsSpace(c)
    [] cls = "w" -> IsWord(c)
    [] cls = "name" -> IsNameChar(c)

\* the position after the longest run of lexemes of class cls that starts at i
RunEnd(s, i, cls) ==
  IF i > Len(s) THEN i
  ELSE CHOOSE j \in i..(Len(s) + 1) :
         /\ \A k \in i..(j - 1) : InClass(cls, s[k])
         /\ (j = Len(s) + 1 \/ ~InClass(cls, s[j]))

RECURSIVE lstrip(_)
lstrip(s) == IF s = <<>> THEN s ELSE IF IsSpace(Head(s)) THEN lstrip(Tail(s)) ELSE s

RECURSIVE rstrip(_)
rstrip(s) ==
  IF s = <<>> THEN s
  ELSE IF IsSpace(s[Len(s)]) THEN rstrip(SubSeq(s, 1, Len(s) - 1)) ELSE s

\* whitespace is removed at the front only
strip_leading(s) == lstrip(s)

\* str.strip()
strip(s) == rstrip(lstrip(s))

\* str.splitlines()[0] of a non-empty text
RECURSIVE first_line(_)
first_line(s) ==
  IF s = <<>> \/ Head(s) = "\n" THEN <<>> ELSE <<Head(s)>> \o first_line(Tail(s))

RECURSIVE ToInt(_)
ToInt(ds) == IF ds = <<>> THEN 0 ELSE 10 * ToInt(SubSeq(ds, 1, Len(ds) - 1)) + DigitVal(ds[Len(ds)])

\* \b before position i: the lexeme before is not a word lexeme
Boundary(s, i) == i = 1 \/ ~IsWord(s[i - 1])

\* s holds the lexemes lit from position i on
Lit(s, i, lit) == i + Len(lit) - 1 <= Len(s) /\ SubSeq(s, i, i + Len(lit) - 1) = lit

Min(S) == CHOOSE x \in S : \A y \in S : x <= y

\* ------------------------------------------------------------ regex helpers
JAVAC_PREFIX == <<"Main", ".", "java", ":">>

\* _JAVAC_LINE_RE matches at position i:  \bMain\.java:(\d+):
JavacLineAt(s, i) ==
  LET d == i + Len(JAVAC_PREFIX)
      e == RunEnd(s, d, "d")
  IN  /\ Boundary(s, i)
      /\ Lit(s, i, JAVAC_PREFIX)
      /\ e > d
      /\ e <= Len(s) /\ s[e] = ":"

JavacLineGroup(s, i) ==
  LET d == i + Len(JAVAC_PREFIX) IN ToInt(SubSeq(s, d, RunEnd(s, d, "d") - 1))

\* the least line number any match reports
parse_compile_error_least(stderr) ==
  LET hits == {i \in 1..Len(stderr) : JavacLineAt(stderr, i)}
  IN  IF hits = {} THEN NoneV ELSE Some(Min({JavacLineGroup(stderr, i) : i \in hits}))

\* _parse_compile_error: the first match of _JAVAC_LINE_RE, or None
parse_compile_error(stderr) ==
  LET hits == {i \in 1..Len(stderr) : JavacLineAt(stderr, i)}
  IN  IF hits = {} THEN NoneV ELSE Some(JavacLineGroup(stderr, Min(hits)))

\* word lexemes holding "Exception" or "Error" after at least one character
ExcInside == {"ArithmeticException", "StackOverflowError", "NullPointerException",
              "InnerException", "MyError"}
\* word lexemes that begin with "Exception" or "Error"
ExcStart == {"Exception", "Error"}

\* _RUNTIME_EXC_RE matches the line that starts at position i
RuntimeExcAt(s, i) ==
  LET b == i + 1
      e == RunEnd(s, b, "name")
  IN  /\ s[i] = "EXC_HDR"
      /\ (i = 1 \/ s[i - 1] = "\n")
      /\ \E k \in b..(e - 1) : s[k] \in ExcInside \/ (s[k] \in ExcStart /\ k > b)
      /\ (e > Len(s) \/ s[e] = "\n" \/ s[e] = ":")

RuntimeExcGroup(s, i) == SubSeq(s, i + 1, RunEnd(s, i + 1, "name") - 1)

\* full_name.rsplit(".", 1)[-1]
RECURSIVE rsplit_last(_)
rsplit_last(name) ==
  IF name = <<>> \/ name[Len(name)] = "." THEN <<>>
  ELSE rsplit_last(SubSeq(name, 1, Len(name) - 1)) \o <<name[Len(name)]>>

FRAME_MID == <<"(", "Main", ".", "java", ":">>

\* _RUNTIME_LINE_RE matches at position i:  \bat\s+Main\.\w+\(Main\.java:(\d+)\)
RuntimeLineAt(s, i) ==
  LET j == RunEnd(s, i + 1, "s")
      k == RunEnd(s, j + 2, "w")
      d == k + Len(FRAME_MID)
      e == RunEnd(s, d, "d")
  IN  /\ s[i] = "at" /\ Boundary(s, i)
      /\ j > i + 1
      /\ Lit(s, j, <<"Main", ".">>)
      /\ k > j + 2
      /\ Lit(s, k, FRAME_MID)
      /\ e > d
      /\ e <= Len(s) /\ s[e] = ")"

RuntimeLineGroup(s, i) ==
  LET j == RunEnd(s, i + 1, "s")
      k == RunEnd(s, j + 2, "w")
      d == k + Len(FRAME_MID)
  IN  ToInt(SubSeq(s, d, RunEnd(s, d, "d") - 1))

\* the fully-qualified name is reported as the header gives it
parse_runtime_exception_qualified(stderr) ==
  LET exc == {i \in 1..Len(stderr) : RuntimeExcAt(stderr, i)}
      lin == {i \in 1..Len(stderr) : RuntimeLineAt(stderr, i)}
  IN  [exception_type |->
         IF exc = {} THEN NoneV ELSE Some(RuntimeExcGroup(stderr, Min(exc))),
       line_number |->
         IF lin = {} THEN NoneV ELSE Some(RuntimeLineGroup(stderr, Min(lin)))]

\* the frames are searched only once a header line has matched
parse_runtime_exception_coupled(stderr) ==
  LET exc == {i \in 1..Len(stderr) : RuntimeExcAt(stderr, i)}
      lin == {i \in 1..Len(stderr) : RuntimeLineAt(stderr, i)}
  IN  [exception_type |->
         IF exc = {} THEN NoneV ELSE Some(rsplit_last(RuntimeExcGroup(stderr, Min(exc)))),
       line_number |->
         IF exc = {} \/ lin = {} THEN NoneV ELSE Some(RuntimeLineGroup(stderr, Min(lin)))]

\* _parse_runtime_exception: (exception_type, line_number)
parse_runtime_exception(stderr) ==
  LET exc == {i \in 1..Len(stderr) : RuntimeExcAt(stderr, i)}
      lin == {i \in 1..Len(stderr) : RuntimeLineAt(stderr, i)}
  IN  [exception_type |->
         IF exc = {} THEN NoneV ELSE Some(rsplit_last(RuntimeExcGroup(stderr, Min(exc)))),
       line_number |->
         IF lin = {} THEN NoneV ELSE Some(RuntimeLineGroup(stderr, Min(lin)))]

\* ------------------------------------------------------- environment inputs
\* submitted source texts
CodeList == <<<<"class", " ", "Main", " ", "A">>, <<"class", " ", "Main", " ", "B">>>>
Codes == {CodeList[k] : k \in 1..Len(CodeList)}

TRACE ==
  <<"EXC_HDR", "java", ".", "lang", ".", "ArithmeticException", ":", " ", "/", " ",
    "by", " ", "zero", "\n", "\t", "at", " ", "Main", ".", "main", "(", "Main", ".",
    "java", ":", "4", ")", "\n">>

\* two threads died: the first exception was thrown by a library method
\* called from the constructor of Main, the second inside Main.f
TRACES ==
  <<"EXC_HDR", "a", ".", "b", ".", "Outer", "$", "InnerException", ":", " ", "boom", "\n",
    "\t", "at", " ", "java", ".", "util", ".", "Objects", ".", "requireNonNull", "(",
    "Objects", ".", "java", ":", "2", "0", "8", ")", "\n",
    "\t", "at", " ", "Main", ".", "<", "init", ">", "(", "Main", ".", "java", ":", "7", ")", "\n",
    "\t", "at", " ", "Main", ".", "main", "(", "Main", ".", "java", ":", "1", "2", ")", "\n",
    "EXC_HDR", "java", ".", "lang", ".", "StackOverflowError", "\n",
    "\t", "at", " ", "Main", ".", "f", "(", "Main", ".", "java", ":", "3", ")", "\n">>

\* an Error whose trace the JVM could not print, and a Throwable that is
\* neither an Exception nor an Error by name
HEADER_ONLY == <<"EXC_HDR", "java", ".", "lang", ".", "StackOverflowError", "\n">>
FRAME_ONLY ==
  <<"EXC_HDR", "java", ".", "lang", ".", "Throwable", "\n",
    "\t", "at", " ", "Main", ".", "main", "(", "Main", ".", "java", ":", "9", ")", "\n">>

\* what a program may have written to stdout / stderr when it exits
StdoutTexts == {<<>>, <<" ", "\n">>, <<"Hello", "\n">>}
StderrTexts == {<<>>, <<"\n">>, <<"warn", "\n">>, <<"\n", "warn", "\n", "more">>, TRACE,
                TRACES, HEADER_ONLY, FRAME_ONLY}
ExitCodes == {0, 1}
ProgramExits == [rc : ExitCodes, out : StdoutTexts, err : StderrTexts]

\* how javac may exit: its return code and what it wrote
DIAG == <<"Main", ".", "java", ":", "3", ":", " ", "error", "\n">>
\* three diagnostics; the first reported line is neither the least nor the greatest
DIAGS ==
  <<"Main", ".", "java", ":", "5", ":", " ", "error", "\n",
    "Main", ".", "java", ":", "3", ":", " ", "error", "\n",
    "Main", ".", "java", ":", "1", "2", ":", " ", "error", "\n">>
JavacExits ==
  {[rc |-> 0, out |-> <<>>, err |-> <<>>],
   [rc |-> 0, out |-> <<>>, err |-> <<"Note", "\n">>],
   [rc |-> 1, out |-> <<>>, err |-> DIAG],
   [rc |-> 1, out |-> DIAG, err |-> <<>>],
   [rc |-> 1, out |-> <<>>, err |-> DIAGS],
   [rc |-> 1, out |-> DIAG, err |-> <<"\n">>],
   [rc |-> 2, out |-> <<>>, err |-> <<"\n">>]}

\* The texts the environment draws from.  AllTexts is every text above;
\* FewTexts is one clean and one failing exit of each tool, for the
\* specification in which invocations interleave.
AllTexts ==
  [javac |-> JavacExits, exits |-> ProgramExits, drains |-> StdoutTexts,
   drain_faults |-> {NoneV, Some("TimeoutExpired"), Some("ValueError")}]
FewTexts ==
  [javac |-> {x \in JavacExits : x.out = <<>> /\ x.err \in {<<>>, DIAG}},
   exits |-> {x \in ProgramExits :
                \/ x.rc = 0 /\ x.out = <<"Hello", "\n">> /\ x.err = <<>>
                \/ x.rc = 1 /\ x.out = <<"Hello", "\n">> /\ x.err = TRACE},
   drains |-> {<<>>},
   drain_faults |-> {NoneV}]

Platforms == {"posix", "win32"}

\* one directory name for every invocation
SandboxPath_fixed(u) == TEMP_BASE_DIR \o <<MAIN_CLASS>>

\* os.path.join(TEMP_BASE_DIR, uuid.uuid4().hex)
SandboxPath(u) == TEMP_BASE_DIR \o <<u>>
Paths == {SandboxPath(u) : u \in Uuids}

NoDir == [exists |-> FALSE, src |-> NoneV, cls |-> NoneV]
NoResult == [status |-> "None"]

VARIABLES
  platform,        \* sys.platform
  pc,              \* pc[i]: where invocation i stands in execute_java_code
  code,            \* code[i]: the argument of invocation i
  drawn,           \* drawn[i]: the value uuid.uuid4() returned to invocation i
  sandbox,         \* sandbox[i]: the local variable sandbox, once assigned
  compile_result,  \* compile_result[i]: the _CompileResult, once returned
  run_result,      \* run_result[i]: the _RunResult, once returned
  result,          \* result[i]: the dict execute_java_code returns
  fs,              \* fs[p]: the directory at path p and its Main.java / Main.class
  procs,           \* the live processes launched for the submitted programs
  spawned,         \* spawned[i]: processes the program of invocation i has spawned
  deadline,        \* deadline[i]: the stage whose deadline expired, if any
  drained,         \* drained[i]: what the drain after the kill read from stdout
  drain_raised,    \* drain_raised[i]: the exception the drain ended with, if any
  rmtree_failed,   \* rmtree_failed[i]: shutil.rmtree hit an error and ignored it
  raised,          \* raised[i]: the exception raised inside invocation i, if any
  log              \* log[i]: the steps invocation i has taken, in order

\* the request layer (routes.py, response.py, app.py, db.py, llm.py)
VARIABLES
  debug,           \* app.debug, once the application is started
  handler,         \* handler[r]: the locals of the view serving request r, and its position
  response,        \* response[r]: the (body, status) pair sent for request r, once built
  calls,           \* calls[r]: the collaborators request r has called, with their arguments
  client,          \* db._client: the MongoClient singleton, once created
  submissions      \* the documents inserted into the submissions collection

reqvars == <<debug, handler, response, calls, client, submissions>>

\* callers that use _cleanup and log_submission directly
VARIABLES
  releases,        \* the calls of _cleanup made outside execute_java_code, in order
  worker           \* worker[t]: the thread t inside log_submission, and its position

directvars == <<releases, worker>>

vars == <<platform, pc, code, drawn, sandbox, compile_result, run_result, result, fs,
          procs, spawned, deadline, drained, drain_raised, rmtree_failed, raised, log, reqvars,
          directvars>>

Init ==
  /\ platform \in Platforms
  /\ pc = [i \in Inv |-> "idle"]
  /\ code = [i \in Inv |-> <<>>]
  /\ drawn = [i \in Inv |-> NoneV]
  /\ sandbox = [i \in Inv |-> NoneV]
  /\ compile_result = [i \in Inv |-> NoneV]
  /\ run_result = [i \in Inv |-> NoneV]
  /\ result = [i \in Inv |-> NoResult]
  /\ fs = [p \in Paths |-> NoDir]
  /\ procs = {}
  /\ spawned = [i \in Inv |-> 0]
  /\ deadline = [i \in Inv |-> "none"]
  /\ drained = [i \in Inv |-> NoneV]
  /\ drain_raised = [i \in Inv |-> NoneV]
  /\ rmtree_failed = [i \in Inv |-> FALSE]
  /\ raised = [i \in Inv |-> NoneV]
  /\ log = [i \in Inv |-> <<>>]
  /\ debug = NoneV
  /\ handler = [r \in Req |-> [pc |-> "idle"]]
  /\ response = [r \in Req |-> NoneV]
  /\ calls = [r \in Req |-> <<>>]
  /\ client = NoneV
  /\ submissions = {}
  /\ releases = <<>>
  /\ worker = [t \in Threads |-> [pc |-> "idle", made |-> FALSE, used |-> NoneV, outcome |-> NoneV]]

\* ------------------------------------------------------------ result shapes
TIMEOUT_MESSAGE == <<"Execution time exceeded limit">>

\* lines 381-385 and 413-417
timeout_result ==
  [status |-> "Timeout", error_message |-> Some(TIMEOUT_MESSAGE), output |-> NoneV]

\* the catch-all clause reports a status of its own
except_result_own_status(exc) ==
  IF exc.kind = "TimeoutExpired" THEN timeout_result
  ELSE [status |-> IF exc.kind = "FileNotFoundError" THEN "RuntimeError" ELSE "InternalError",
        error_message |-> Some(<<"Internal engine error: ">> \o exc.msg),
        exception_type |-> Some(<<exc.kind>>),
        line_number |-> NoneV,
        output |-> NoneV]

\* the except clauses of execute_java_code, in their order
except_result(exc) ==
  IF exc.kind = "TimeoutExpired" THEN timeout_result
  ELSE IF exc.kind = "FileNotFoundError" THEN
    [status |-> "RuntimeError",
     error_message |-> Some(<<"Java toolchain not found on PATH: ">> \o exc.msg),
     exception_type |-> Some(<<"EnvironmentError">>),
     line_number |-> NoneV,
     output |-> NoneV]
  ELSE
    [status |-> "RuntimeError",
     error_message |-> Some(<<"Internal engine error: ">> \o exc.msg),
     exception_type |-> Some(<<exc.kind>>),
     line_number |-> NoneV,
     output |-> NoneV]

Exc(kind, what) == [kind |-> kind, msg |-> <<what>>]

\* lines 241-245: the _CompileResult of a javac that exited; returncode is
\* kept beside the fields of the dataclass to tell what success was computed from
compile_exit(x) ==
  [success |-> x.rc = 0, stderr |-> x.err, stdout |-> x.out, returncode |-> x.rc]

\* lines 288-293: the _RunResult of a program that exited within the deadline
run_exit(rc, out, err) ==
  [timed_out |-> FALSE, returncode |-> rc, stdout |-> out, stderr |-> err]

\* line 302: _RunResult(timed_out=True); what the drain read is dropped
run_timed_out(out) ==
  [timed_out |-> TRUE, returncode |-> 0, stdout |-> <<>>, stderr |-> <<>>]

\* the stage is judged by what javac wrote to stderr, not by its exit status
compile_failed_by_stderr(cr) == strip(cr.stderr) # <<>>

\* line 365: if not compile_result.success
compile_failed(cr) == ~cr.success

\* the CompilationError shape built from the RuntimeError one
compile_error_result_with_type(cr) ==
  LET raw_error == strip(IF cr.stderr # <<>> THEN cr.stderr ELSE cr.stdout)
  IN  [status |-> "CompilationError",
       error_message |-> Some(raw_error),
       exception_type |-> NoneV,
       line_number |-> parse_compile_error(raw_error),
       output |-> NoneV]

\* the diagnostic text is stderr alone, stdout is never looked at
compile_error_result_stderr_only(cr) ==
  LET raw_error == strip(cr.stderr)
  IN  [status |-> "CompilationError",
       error_message |-> Some(raw_error),
       line_number |-> parse_compile_error(raw_error),
       output |-> NoneV]

\* lines 367-373
compile_error_result(cr) ==
  LET raw_error == strip(IF cr.stderr # <<>> THEN cr.stderr ELSE cr.stdout)
  IN  [status |-> "CompilationError",
       error_message |-> Some(raw_error),
       line_number |-> parse_compile_error(raw_error),
       output |-> NoneV]

\* only the exit code is looked at
run_faulted_by_code(returncode, stderr) == returncode # 0

\* line 391: if run_result.returncode != 0 or stderr  (stderr already stripped)
run_faulted(returncode, stderr) == returncode # 0 \/ stderr # <<>>

\* the output of a faulting run is the stripped stdout even when it is empty
run_outcome_result_empty_output(rr) ==
  LET stdout == strip(rr.stdout)
      stderr == strip(rr.stderr)
      parsed == parse_runtime_exception(stderr)
  IN  IF rr.timed_out THEN timeout_result
      ELSE IF run_faulted(rr.returncode, stderr) THEN
        [status |-> "RuntimeError",
         error_message |-> Some(IF stderr # <<>> THEN first_line(stderr)
                                ELSE <<"Runtime error">>),
         exception_type |-> parsed.exception_type,
         line_number |-> parsed.line_number,
         output |-> Some(stdout)]
      ELSE
        [status |-> "Success", error_message |-> NoneV, output |-> Some(stdout)]

\* the output of a Success is stdout as the program wrote it
run_outcome_result_raw_output(rr) ==
  LET stdout == strip(rr.stdout)
      stderr == strip(rr.stderr)
      parsed == parse_runtime_exception(stderr)
  IN  IF rr.timed_out THEN timeout_result
      ELSE IF run_faulted(rr.returncode, stderr) THEN
        [status |-> "RuntimeError",
         error_message |-> Some(IF stderr # <<>> THEN first_line(stderr)
                                ELSE <<"Runtime error">>),
         exception_type |-> parsed.exception_type,
         line_number |-> parsed.line_number,
         output |-> IF stdout # <<>> THEN Some(stdout) ELSE NoneV]
      ELSE
        [status |-> "Success", error_message |-> NoneV, output |-> Some(rr.stdout)]

\* lines 380-409
run_outcome_result(rr) ==
  LET stdout == strip(rr.stdout)
      stderr == strip(rr.stderr)
      parsed == parse_runtime_exception(stderr)
  IN  IF rr.timed_out THEN timeout_result
      ELSE IF run_faulted(rr.returncode, stderr) THEN
        [status |-> "RuntimeError",
         error_message |-> Some(IF stderr # <<>> THEN first_line(stderr)
                                ELSE <<"Runtime error">>),
         exception_type |-> parsed.exception_type,
         line_number |-> parsed.line_number,
         output |-> IF stdout # <<>> THEN Some(stdout) ELSE NoneV]
      ELSE
        [status |-> "Success", error_message |-> NoneV, output |-> Some(stdout)]

\* ----------------------------------------------------------------- actions
Dir(i) == CHOOSE p \in sandbox[i] : TRUE

\* No step looks inside a source text or a uuid, so behaviours that differ only
\* by a renaming of them are the same behaviour: a text or a uuid that no
\* invocation has used yet is always taken to be the first unused one.
FirstUnused(used, n) ==
  LET fresh == {k \in 1..n : k \notin used} IN IF fresh = {} THEN {} ELSE {Min(fresh)}
UsedCodes == {k \in 1..Len(CodeList) : \E j \in Inv : pc[j] # "idle" /\ code[j] = CodeList[k]}
CodeChoices == {CodeList[k] : k \in UsedCodes \cup FirstUnused(UsedCodes, Len(CodeList))}
UsedUuids == UNION {drawn[j] : j \in Inv}
UuidChoices == UsedUuids \cup FirstUnused(UsedUuids, NUuid)

Jvm(i) == [inv |-> i, id |-> 0, detached |-> FALSE]

\* a process started by the javac command of invocation i (the compiler proper
\* behind a launcher or a shim): javac is not given a session of its own, and
\* the child is no member of any group _kill_process_tree is pointed at
JavacChild(i) == [inv |-> i, id |-> -1, detached |-> TRUE]

\* the JVM is left in the process group of the engine, so the kill reaches
\* every process the engine has started
KillTargets_engine_group(i) == procs

\* the processes a kill addressed to invocation i's process group (POSIX) or
\* process tree (Windows) reaches: a descendant that left the group (setsid) or
\* was orphaned out of the tree is detached
KillTargets(i) == {q \in procs : q.inv = i /\ ~q.detached}

Logged(i, steps) == log' = [log EXCEPT ![i] = @ \o steps]

\* a return statement inside the try block: the value is fixed, then the
\* finally clause runs
Return(i, steps, value) ==
  /\ result' = [result EXCEPT ![i] = value]
  /\ Logged(i, steps \o <<"result">>)
  /\ pc' = [pc EXCEPT ![i] = "finally"]

\* the except clauses return without the finally clause running
Caught_without_finally(i, steps, exc) ==
  /\ result' = [result EXCEPT ![i] = except_result(exc)]
  /\ Logged(i, steps \o <<"result">>)
  /\ pc' = [pc EXCEPT ![i] = "done"]
  /\ raised' = [raised EXCEPT ![i] = Some(exc)]

\* an exception raised inside the try block by the step just taken: the
\* matching except clause returns
Caught(i, steps, exc) ==
  /\ Return(i, steps, except_result(exc))
  /\ raised' = [raised EXCEPT ![i] = Some(exc)]

\* a caller enters execute_java_code(code)
Call(i) ==
  /\ pc[i] = "idle"
  /\ \A j \in Inv : j < i => pc[j] # "idle"   \* invocations are numbered as they start
  /\ \E c \in CodeChoices : code' = [code EXCEPT ![i] = c]
  /\ pc' = [pc EXCEPT ![i] = "create"]
  /\ UNCHANGED <<reqvars, raised, platform, drawn, sandbox, compile_result, run_result, result, fs, procs,
                 spawned, deadline, log,
                 drained, drain_raised, rmtree_failed, directvars>>

\* line 349: sandbox = _create_sandbox(), before the try block is entered
create_sandbox(i) ==
  /\ pc[i] = "create"
  /\ \E u \in UuidChoices, made \in BOOLEAN :
       /\ drawn' = [drawn EXCEPT ![i] = Some(u)]
       /\ IF made
          THEN \* os.makedirs(path, exist_ok=True): an existing directory is accepted
               /\ fs' = [fs EXCEPT ![SandboxPath(u)].exists = TRUE]
               /\ sandbox' = [sandbox EXCEPT ![i] = Some(SandboxPath(u))]
               /\ pc' = [pc EXCEPT ![i] = "write"]
               /\ UNCHANGED raised
          ELSE \* os.makedirs raises OSError: no except clause is in scope
               /\ pc' = [pc EXCEPT ![i] = "raised"]
               /\ raised' = [raised EXCEPT ![i] = Some(Exc("OSError", "makedirs"))]
               /\ UNCHANGED <<fs, sandbox>>
  /\ UNCHANGED <<reqvars, platform, code, compile_result, run_result, result, procs, spawned,
                 deadline, log,
                 drained, drain_raised, rmtree_failed, directvars>>

\* lines 355-357: write Main.java into the sandbox
write_source(i) ==
  /\ pc[i] = "write"
  /\ IF ~fs[Dir(i)].exists
     THEN /\ Caught(i, <<"write">>, Exc("FileNotFoundError", "Main.java"))
          /\ UNCHANGED fs
     ELSE \E fault \in {"none", "OSError"} :
            IF fault = "none"
            THEN /\ fs' = [fs EXCEPT ![Dir(i)].src = Some(code[i])]
                 /\ pc' = [pc EXCEPT ![i] = "compile"]
                 /\ Logged(i, <<"write">>)
                 /\ UNCHANGED <<result, raised>>
            ELSE /\ Caught(i, <<"write">>, Exc(fault, "Main.java"))
                 /\ UNCHANGED fs
  /\ UNCHANGED <<reqvars, platform, code, drawn, sandbox, compile_result, run_result, procs,
                 spawned, deadline,
                 drained, drain_raised, rmtree_failed, directvars>>

\* line 363 and lines 233-245: _compile; subprocess.run waits for javac or
\* for COMPILE_TIMEOUT, then lines 365-373
compile(i, E) ==
  /\ pc[i] = "compile"
  /\ IF ~fs[Dir(i)].exists
     THEN \* cwd=sandbox does not exist
          /\ Caught(i, <<"compile">>, Exc("FileNotFoundError", "sandbox"))
          /\ UNCHANGED <<fs, compile_result, deadline, procs>>
     ELSE \E env \in {"missing", "OSError", "timeout", "exit"} :
            CASE env = "missing" ->
                   /\ Caught(i, <<"compile">>, Exc("FileNotFoundError", "javac"))
                   /\ UNCHANGED <<fs, compile_result, deadline, procs>>
              [] env = "OSError" ->
                   /\ Caught(i, <<"compile">>, Exc("OSError", "javac"))
                   /\ UNCHANGED <<fs, compile_result, deadline, procs>>
              [] env = "timeout" ->
                   \* subprocess.run kills the process it started (Popen.kill)
                   \* and waits for it; what that process had started lives on
                   /\ deadline' = [deadline EXCEPT ![i] = "compile"]
                   /\ Caught(i, <<"compile">>, Exc("TimeoutExpired", "javac"))
                   /\ \E child \in BOOLEAN :
                        procs' = IF child THEN procs \cup {JavacChild(i)} ELSE procs
                   /\ UNCHANGED <<fs, compile_result>>
              [] env = "exit" ->
                   \E x \in E.javac :
                     LET cr == compile_exit(x)
                     IN  /\ compile_result' = [compile_result EXCEPT ![i] = Some(cr)]
                         /\ UNCHANGED <<deadline, raised, procs>>
                         /\ IF compile_failed(cr)
                            THEN /\ Return(i, <<"compile">>, compile_error_result(cr))
                                 /\ UNCHANGED fs
                            ELSE /\ fs' = [fs EXCEPT ![Dir(i)].cls = fs[Dir(i)].src]
                                 /\ pc' = [pc EXCEPT ![i] = "run"]
                                 /\ Logged(i, <<"compile">>)
                                 /\ UNCHANGED result
  /\ UNCHANGED <<reqvars, platform, code, drawn, sandbox, run_result, spawned,
                 drained, drain_raised, rmtree_failed, directvars>>

\* line 378 and lines 270-284: _run launches the JVM in its own session
run_launch(i) ==
  /\ pc[i] = "run"
  /\ IF ~fs[Dir(i)].exists
     THEN /\ Caught(i, <<"run">>, Exc("FileNotFoundError", "sandbox"))
          /\ UNCHANGED procs
     ELSE \E env \in {"missing", "OSError", "started"} :
            IF env = "started"
            THEN /\ procs' = procs \cup {Jvm(i)}
                 /\ pc' = [pc EXCEPT ![i] = "running"]
                 /\ Logged(i, <<"run">>)
                 /\ UNCHANGED <<result, raised>>
            ELSE /\ Caught(i, <<"run">>,
                           Exc(IF env = "missing" THEN "FileNotFoundError" ELSE env, "java"))
                 /\ UNCHANGED procs
  /\ UNCHANGED <<reqvars, platform, code, drawn, sandbox, compile_result, run_result, fs, spawned,
                 deadline,
                 drained, drain_raised, rmtree_failed, directvars>>

\* the submitted program starts another process (ProcessBuilder, Runtime.exec)
spawn(i) ==
  /\ pc[i] = "running"
  /\ spawned[i] < MaxSpawn
  /\ spawned' = [spawned EXCEPT ![i] = @ + 1]
  /\ \E det \in BOOLEAN :
       procs' = procs \cup {[inv |-> i, id |-> spawned[i] + 1, detached |-> det]}
  /\ UNCHANGED <<reqvars, raised, platform, pc, code, drawn, sandbox, compile_result, run_result, result,
                 fs, deadline, log,
                 drained, drain_raised, rmtree_failed, directvars>>

\* lines 270-284: the JVM runs with the privileges of the server; cwd=sandbox
\* and -cp sandbox confine neither absolute nor ".." paths, so the submitted
\* program can remove any directory under TEMP_BASE_DIR
program_removes(i) ==
  /\ pc[i] = "running"
  /\ \E p \in Paths :
       /\ fs[p].exists
       /\ fs' = [fs EXCEPT ![p] = NoDir]
  /\ UNCHANGED <<reqvars, raised, platform, pc, code, drawn, sandbox, compile_result, run_result, result,
                 procs, spawned, deadline, log,
                 drained, drain_raised, rmtree_failed, directvars>>

\* lines 287-293 and 380-409: communicate() returns before EXECUTE_TIMEOUT
run_finish(i, E) ==
  /\ pc[i] = "running"
  /\ \E x \in E.exits :
       LET rr == run_exit(x.rc, x.out, x.err)
       IN  /\ run_result' = [run_result EXCEPT ![i] = Some(rr)]
           /\ Return(i, <<>>, run_outcome_result(rr))
  /\ procs' = procs \ {Jvm(i)}
  /\ UNCHANGED <<reqvars, raised, platform, code, drawn, sandbox, compile_result, fs, spawned, deadline,
                 drained, drain_raised, rmtree_failed, directvars>>

\* line 295: communicate() raises TimeoutExpired after EXECUTE_TIMEOUT
run_deadline(i) ==
  /\ pc[i] = "running"
  /\ deadline' = [deadline EXCEPT ![i] = "run"]
  /\ pc' = [pc EXCEPT ![i] = "kill"]
  /\ UNCHANGED <<reqvars, raised, platform, code, drawn, sandbox, compile_result, run_result, result, fs,
                 procs, spawned, log,
                 drained, drain_raised, rmtree_failed, directvars>>

\* line 297 and lines 196-207: _kill_process_tree(process.pid)
kill_process_tree(i) ==
  /\ pc[i] = "kill"
  /\ IF platform = "win32"
     THEN \* subprocess.run(["taskkill", ...], check=False): not inside any try
          \E env \in {"killed", "failed", "missing", "OSError"} :
            CASE env = "killed" ->
                   /\ procs' = procs \ KillTargets(i)
                   /\ pc' = [pc EXCEPT ![i] = "drain"]
                   /\ Logged(i, <<"kill">>)
                   /\ UNCHANGED <<result, raised>>
              [] env = "failed" ->
                   /\ pc' = [pc EXCEPT ![i] = "drain"]
                   /\ Logged(i, <<"kill">>)
                   /\ UNCHANGED <<procs, result, raised>>
              [] env = "missing" ->
                   /\ Caught(i, <<"kill">>, Exc("FileNotFoundError", "taskkill"))
                   /\ UNCHANGED procs
              [] env = "OSError" ->
                   /\ Caught(i, <<"kill">>, Exc("OSError", "taskkill"))
                   /\ UNCHANGED procs
     ELSE \* os.killpg(os.getpgid(pid), SIGKILL) inside try / except Exception: pass
          \E env \in {"killed", "raised"} :
            /\ procs' = IF env = "killed" THEN procs \ KillTargets(i) ELSE procs
            /\ pc' = [pc EXCEPT ![i] = "drain"]
            /\ Logged(i, <<"kill">>)
            /\ UNCHANGED <<result, raised>>
  /\ UNCHANGED <<reqvars, platform, code, drawn, sandbox, compile_result, run_result, fs, spawned,
                 deadline,
                 drained, drain_raised, rmtree_failed, directvars>>

\* lines 298-302 and 380-385: one communicate(timeout=3); it reads what is
\* buffered, or raises TimeoutExpired after DRAIN_TIMEOUT seconds, or raises
\* another exception; all of it is discarded, then _RunResult(timed_out=True)
drain(i, E) ==
  /\ pc[i] = "drain"
  /\ \E out \in E.drains, exc \in E.drain_faults :
       LET rr == run_timed_out(out)
       IN  /\ drained' = [drained EXCEPT ![i] = Some(out)]
           /\ drain_raised' = [drain_raised EXCEPT ![i] = exc]
           /\ run_result' = [run_result EXCEPT ![i] = Some(rr)]
           /\ Return(i, <<"drain">>, run_outcome_result(rr))
  /\ UNCHANGED <<reqvars, raised, platform, code, drawn, sandbox, compile_result, fs, procs, spawned,
                 deadline,
                 rmtree_failed, directvars>>

\* the files are removed and the directory is left behind
rmtree_files_only(tree, removed) ==
  IF removed THEN [tree EXCEPT !.src = NoneV, !.cls = NoneV] ELSE tree

\* Main.class survives the removal of the tree
rmtree_keeps_class(tree, removed) == IF removed THEN [tree EXCEPT !.src = NoneV] ELSE tree

\* shutil.rmtree(directory, ignore_errors=True): the tree is gone, or an error
\* was ignored and it is still there
rmtree(tree, removed) == IF removed THEN NoDir ELSE tree

\* an error of shutil.rmtree replaces the result the try block had fixed
cleanup_reporting_failure(i) ==
  /\ pc[i] = "finally"
  /\ \E removed \in (IF fs[Dir(i)].exists THEN BOOLEAN ELSE {TRUE}) :
       /\ fs' = [fs EXCEPT ![Dir(i)] = rmtree(@, removed)]
       /\ rmtree_failed' = [rmtree_failed EXCEPT ![i] = ~removed]
       /\ result' = [result EXCEPT ![i] =
                       IF removed THEN @ ELSE except_result(Exc("OSError", "rmtree"))]
  /\ Logged(i, <<"cleanup">>)
  /\ pc' = [pc EXCEPT ![i] = "done"]
  /\ UNCHANGED <<reqvars, raised, platform, code, drawn, sandbox, compile_result, run_result,
                 procs, spawned, deadline,
                 drained, drain_raised, directvars>>

\* the finally clause removes TEMP_BASE_DIR with everything below it
cleanup_base_dir(i) ==
  /\ pc[i] = "finally"
  /\ \E removed \in (IF fs[Dir(i)].exists THEN BOOLEAN ELSE {TRUE}) :
       /\ fs' = [p \in Paths |-> rmtree(fs[p], removed)]
       /\ rmtree_failed' = [rmtree_failed EXCEPT ![i] = ~removed]
  /\ Logged(i, <<"cleanup">>)
  /\ pc' = [pc EXCEPT ![i] = "done"]
  /\ UNCHANGED <<reqvars, raised, platform, code, drawn, sandbox, compile_result, run_result, result,
                 procs, spawned, deadline,
                 drained, drain_raised, directvars>>

\* lines 439-441 and 171-181: the finally clause, then the return
cleanup(i) ==
  /\ pc[i] = "finally"
  /\ \E removed \in (IF fs[Dir(i)].exists THEN BOOLEAN ELSE {TRUE}) :
       /\ fs' = [fs EXCEPT ![Dir(i)] = rmtree(@, removed)]
       /\ rmtree_failed' = [rmtree_failed EXCEPT ![i] = ~removed]
  /\ Logged(i, <<"cleanup">>)
  /\ pc' = [pc EXCEPT ![i] = "done"]
  /\ UNCHANGED <<reqvars, raised, platform, code, drawn, sandbox, compile_result, run_result, result,
                 procs, spawned, deadline,
                 drained, drain_raised, directvars>>

\* one step of invocation i, the environment drawing its texts from E
Step(i, E) ==
  \/ Call(i)
  \/ create_sandbox(i)
  \/ write_source(i)
  \/ compile(i, E)
  \/ run_launch(i)
  \/ spawn(i)
  \/ program_removes(i)
  \/ run_finish(i, E)
  \/ run_deadline(i)
  \/ kill_process_tree(i)
  \/ drain(i, E)
  \/ cleanup(i)

\* the invocations of all callers, interleaved
Next == \E i \in Inv : Step(i, FewTexts)

Spec == Init /\ [][Next]_vars

\* one invocation followed through every text of the environment
NextOne == Step(1, AllTexts)

SpecOne == Init /\ [][NextOne]_vars

\* the invocations of one caller: each is called after the one before it
\* has returned or raised
NextSeq ==
  \E i \in Inv :
    /\ \A j \in Inv \ {i} : pc[j] \in {"idle", "done", "raised"}
    /\ Step(i, FewTexts)

SpecSeq == Init /\ [][NextSeq]_vars

\* the steps execute_java_code itself takes once called: each is a bounded
\* filesystem or process operation, or a wait that ends with the child or with
\* the timeout passed to it
Pipeline(i, E) ==
  \/ create_sandbox(i)
  \/ write_source(i)
  \/ compile(i, E)
  \/ run_launch(i)
  \/ run_finish(i, E)
  \/ run_deadline(i)
  \/ kill_process_tree(i)
  \/ drain(i, E)
  \/ cleanup(i)

\* one invocation that is never suspended for ever: the interpreter keeps
\* running the thread, and every wait of the pipeline carries a timeout
SpecOneLive == SpecOne /\ WF_vars(Pipeline(1, AllTexts))

\* ------------------------------------------------- _cleanup called directly

\* shutil.rmtree without ignore_errors and without the try statement raises
\* FileNotFoundError for a directory that is not there
cleanup_raises_when_missing(tree) == ~tree.exists

\* lines 176-181: shutil.rmtree(directory, ignore_errors=True) inside
\* try / except Exception: pass; nothing reaches the caller
cleanup_raises(tree) == FALSE

\* _cleanup was applied to path p before: by the finally clause of an
\* invocation that has returned, or by an earlier direct call
ReleasedBefore(p) ==
  \/ \E i \in Inv : sandbox[i] = Some(p) /\ pc[i] = "done"
  \/ \E k \in DOMAIN releases : releases[k].path = p

\* lines 171-181: a caller applies _cleanup to the directory p, at any moment:
\* before the directory was created, while it is in use, after it was removed
release(p) ==
  /\ Len(releases) < MaxRelease
  /\ \E removed \in (IF fs[p].exists THEN BOOLEAN ELSE {TRUE}) :
       /\ fs' = [fs EXCEPT ![p] = rmtree(@, removed)]
       /\ releases' = Append(releases,
            [path |-> p, before |-> fs[p], after |-> rmtree(fs[p], removed),
             again |-> ReleasedBefore(p), raised |-> cleanup_raises(fs[p])])
  /\ UNCHANGED <<reqvars, platform, pc, code, drawn, sandbox, compile_result, run_result,
                 result, procs, spawned, deadline, drained, drain_raised, rmtree_failed,
                 raised, log, worker>>

\* one invocation, and a caller that applies _cleanup to any sandbox path
NextRelease ==
  \/ Step(1, FewTexts)
  \/ \E p \in Paths : release(p)

SpecRelease == Init /\ [][NextRelease]_vars

\* ------------------------------------------------------------ request layer
\* http.HTTPStatus
HTTP_OK == 200
HTTP_BAD_REQUEST == 400
HTTP_NOT_FOUND == 404
HTTP_METHOD_NOT_ALLOWED == 405
HTTP_REQUEST_TIMEOUT == 408
HTTP_INTERNAL_SERVER_ERROR == 500

\* response.ok: data goes into the envelope as it is
ok(data, http_status) ==
  [body |-> [success |-> TRUE, data |-> data, error |-> NoneV], status |-> http_status]

\* response.fail: details is added to the error payload only when it is truthy
fail(message, code_, details, http_status) ==
  LET error_payload ==
        IF details # NoneV
        THEN [message |-> message, code |-> code_, details |-> CHOOSE d \in details : TRUE]
        ELSE [message |-> message, code |-> code_]
  IN  [body |-> [success |-> FALSE, data |-> NoneV, error |-> Some(error_payload)],
       status |-> http_status]

\* A JSON value received as a field of the body: absent, null, another falsy
\* value (0, false, [], {}), a string, or a truthy value that is no string
\* (123, true, [1])
Missing == [t |-> "missing"]
Null == [t |-> "null"]
Falsy == [t |-> "falsy"]
Truthy == [t |-> "truthy"]
Str(text) == [t |-> "str", v |-> text]

UserIdTexts == {<<>>, <<" ", "\t">>, <<" ", "alice", " ">>}
CodeTexts == {<<>>, <<"\n">>, <<"\n", "class", " ", "Main", "\n">>, <<"class", " ", "A">>}
UserIdValues == {Missing, Null, Falsy, Truthy} \cup {Str(x) : x \in UserIdTexts}
CodeValues == {Missing, Null, Falsy, Truthy} \cup {Str(x) : x \in CodeTexts}

\* request.get_json(silent=True): None (empty body, no JSON, no JSON content
\* type), a falsy JSON value ({} among them), a truthy value that is no object,
\* or an object
Bodies ==
  {[t |-> "none"], [t |-> "falsy"], [t |-> "nonobject"]}
    \cup {[t |-> "object", user_id |-> u, code |-> c] : u \in UserIdValues, c \in CodeValues}

\* (body.get(field) or ""): the value when it is truthy, "" otherwise
get_or_empty(f) == IF f.t = "str" /\ f.v # <<>> THEN f ELSE IF f.t = "truthy" THEN f ELSE Str(<<>>)

\* .strip() exists on strings only
has_strip(f) == f.t = "str"

\* _validate_body, lines 53-76: the failure response, "valid" for None, or
\* the AttributeError of a value without .get / .strip
validate_body(body) ==
  IF body.t \in {"none", "falsy"} THEN
    [outcome |-> "fail",
     response |-> fail("Request body must be valid JSON.", "INVALID_INPUT", NoneV,
                       HTTP_BAD_REQUEST)]
  ELSE IF body.t = "nonobject" THEN [outcome |-> "raise"]
  ELSE IF ~has_strip(get_or_empty(body.user_id)) THEN [outcome |-> "raise"]
  ELSE IF strip(get_or_empty(body.user_id).v) = <<>> THEN
    [outcome |-> "fail",
     response |-> fail("Field 'user_id' is required and must not be empty.",
                       "MISSING_FIELD", Some([field |-> "user_id"]), HTTP_BAD_REQUEST)]
  ELSE IF ~has_strip(get_or_empty(body.code)) THEN [outcome |-> "raise"]
  ELSE IF strip(get_or_empty(body.code).v) = <<>> THEN
    [outcome |-> "fail",
     response |-> fail("Field 'code' is required and must not be empty.",
                       "MISSING_FIELD", Some([field |-> "code"]), HTTP_BAD_REQUEST)]
  ELSE [outcome |-> "valid"]

\* the status is 200 whatever the engine's status
http_status_for_always_ok(execution_status) == HTTP_OK

\* _http_status_for, line 92
http_status_for(execution_status) ==
  IF execution_status = "Timeout" THEN HTTP_REQUEST_TIMEOUT ELSE HTTP_OK

\* app.py lines 106-114: the handler Flask runs for an exception no view caught
internal_error ==
  fail("Internal server error.", "INTERNAL_ERROR", Some([detail |-> "exc"]),
       HTTP_INTERNAL_SERVER_ERROR)

\* the page of the Werkzeug debugger: no JSON, no envelope
debugger_page == [body |-> [html |-> "traceback"], status |-> HTTP_INTERNAL_SERVER_ERROR]

\* An exception no view caught. With debug on Flask re-raises it instead of
\* running the handler registered for 500, and the development server answers
\* with the debugger's page
handle_exception == IF debug = Some(TRUE) THEN debugger_page ELSE internal_error

\* what execute_java_code can hand to the view: one result of each shape the
\* engine builds
EngineResults ==
  {timeout_result,
   except_result(Exc("FileNotFoundError", "javac")),
   except_result(Exc("OSError", "Main.java"))}
    \cup {compile_error_result(compile_exit(x)) : x \in {y \in FewTexts.javac : y.rc # 0}}
    \cup {run_outcome_result(run_exit(x.rc, x.out, x.err)) : x \in FewTexts.exits}

\* what generate_hint may return
HintTexts == {<<"Check", " ", "line", " ", "3">>}

\* db.log_submission lines 80-91: the document; line_number and
\* exception_type are stored only when present and truthy (submitted_at, the
\* time of the call, is left out)
document(user_id, code_, result_) ==
  LET get(k) == IF k \in DOMAIN result_ THEN result_[k] ELSE NoneV
      base == [user_id |-> user_id, code |-> code_, status |-> get("status"),
               output |-> get("output"), error |-> get("error_message")]
      withLine == IF get("line_number") \notin {NoneV, Some(0)}
                  THEN [k \in DOMAIN base \cup {"line_number"} |->
                          IF k = "line_number" THEN get(k) ELSE base[k]]
                  ELSE base
  IN  IF get("exception_type") \notin {NoneV, Some(<<>>)}
      THEN [k \in DOMAIN withLine \cup {"exception_type"} |->
              IF k = "exception_type" THEN get(k) ELSE withLine[k]]
      ELSE withLine

\* db.py lines 43-54 distinguish no client objects; the model names the
\* MongoClient built by thread t to tell the instances apart (0: the thread
\* of the request layer)
Instance(t) == <<"MongoClient", t>>

\* app.py lines 62-117 and 124-131: the application is created and started,
\* by app.py itself with debug on or off as FLASK_ENV says, or by a WSGI
\* server or a test client with debug off
application_run ==
  /\ debug = NoneV
  /\ \E d \in BOOLEAN : debug' = Some(d)
  /\ UNCHANGED <<platform, pc, code, drawn, sandbox, compile_result, run_result, result, fs,
                 procs, spawned, deadline, drained, drain_raised, rmtree_failed, raised, log,
                 handler, response, calls, client, submissions, directvars>>

\* the locals h of a view with local k set to v
With(h, k, v) == [x \in DOMAIN h \cup {k} |-> IF x = k THEN v ELSE h[x]]

Respond(r, h, resp) ==
  /\ handler' = [handler EXCEPT ![r] = With(h, "pc", "done")]
  /\ response' = [response EXCEPT ![r] = Some(resp)]

\* routes.py lines 103-114: GET /api/health
health(r) ==
  /\ debug # NoneV
  /\ handler[r].pc = "idle"
  /\ Respond(r, [pc |-> "idle", route |-> "health"],
             ok(Some([status |-> "Backend Running"]), HTTP_OK))
  /\ UNCHANGED <<platform, pc, code, drawn, sandbox, compile_result, run_result, result, fs,
                 procs, spawned, deadline, drained, drain_raised, rmtree_failed, raised, log, debug,
                 calls, client, submissions, directvars>>

\* app.py lines 81-88: a request Werkzeug rejects as malformed
bad_request(r) ==
  /\ debug # NoneV
  /\ handler[r].pc = "idle"
  /\ Respond(r, [pc |-> "idle", route |-> "malformed"],
             fail("Bad request.", "INVALID_INPUT", Some([detail |-> "exc"]), HTTP_BAD_REQUEST))
  /\ UNCHANGED <<platform, pc, code, drawn, sandbox, compile_result, run_result, result, fs,
                 procs, spawned, deadline, drained, drain_raised, rmtree_failed, raised, log, debug,
                 calls, client, submissions, directvars>>

\* app.py lines 90-96: a path no route matches
not_found(r) ==
  /\ debug # NoneV
  /\ handler[r].pc = "idle"
  /\ Respond(r, [pc |-> "idle", route |-> "unknown"],
             fail("Endpoint not found.", "NOT_FOUND", NoneV, HTTP_NOT_FOUND))
  /\ UNCHANGED <<platform, pc, code, drawn, sandbox, compile_result, run_result, result, fs,
                 procs, spawned, deadline, drained, drain_raised, rmtree_failed, raised, log, debug,
                 calls, client, submissions, directvars>>

\* app.py lines 98-104: a route called with a method it does not accept
method_not_allowed(r) ==
  /\ debug # NoneV
  /\ handler[r].pc = "idle"
  /\ Respond(r, [pc |-> "idle", route |-> "wrong_method"],
             fail("Method not allowed.", "METHOD_NOT_ALLOWED", NoneV,
                  HTTP_METHOD_NOT_ALLOWED))
  /\ UNCHANGED <<platform, pc, code, drawn, sandbox, compile_result, run_result, result, fs,
                 procs, spawned, deadline, drained, drain_raised, rmtree_failed, raised, log, debug,
                 calls, client, submissions, directvars>>

\* routes.py lines 159-166: POST /api/submit-code parses and validates the body
validate(r) ==
  /\ debug # NoneV
  /\ handler[r].pc = "idle"
  /\ \E body \in Bodies :
       LET h == [pc |-> "idle", route |-> "submit", body |-> body]
           v == validate_body(body)
       IN  CASE v.outcome = "fail" -> Respond(r, h, v.response)
             [] v.outcome = "raise" -> Respond(r, h, handle_exception)
             [] v.outcome = "valid" ->
                  /\ handler' = [handler EXCEPT ![r] =
                       [pc |-> "execute", route |-> "submit", body |-> body,
                        user_id |-> strip(body.user_id.v), code |-> strip(body.code.v)]]
                  /\ UNCHANGED response
  /\ UNCHANGED <<platform, pc, code, drawn, sandbox, compile_result, run_result, result, fs,
                 procs, spawned, deadline, drained, drain_raised, rmtree_failed, raised, log, debug,
                 calls, client, submissions, directvars>>

\* the view goes on with a result of its own when the engine raises
execute_returning_fault(r) ==
  /\ handler[r].pc = "execute"
  /\ LET h == handler[r] IN
     \E returns \in BOOLEAN :
       /\ calls' = [calls EXCEPT ![r] =
            Append(@, [fn |-> "execute_java_code", code |-> h.code, raised |-> ~returns])]
       /\ \E res \in (IF returns THEN EngineResults
                      ELSE {except_result(Exc("Exception", "engine"))}) :
            handler' = [handler EXCEPT ![r] = With(With(h, "result", res), "pc", "hint")]
       /\ UNCHANGED response
  /\ UNCHANGED <<platform, pc, code, drawn, sandbox, compile_result, run_result, result, fs,
                 procs, spawned, deadline, drained, drain_raised, rmtree_failed, raised, log, debug,
                 client, submissions, directvars>>

\* routes.py lines 171-180: the engine returns a result or raises
execute(r) ==
  /\ handler[r].pc = "execute"
  /\ LET h == handler[r] IN
     \E returns \in BOOLEAN :
       /\ calls' = [calls EXCEPT ![r] =
            Append(@, [fn |-> "execute_java_code", code |-> h.code, raised |-> ~returns])]
       /\ IF returns
          THEN /\ \E res \in EngineResults :
                    handler' = [handler EXCEPT ![r] = With(With(h, "result", res), "pc", "hint")]
               /\ UNCHANGED response
          ELSE Respond(r, h, fail("Internal error during code execution.", "EXECUTION_FAILED",
                                  Some([detail |-> "exc"]), HTTP_INTERNAL_SERVER_ERROR))
  /\ UNCHANGED <<platform, pc, code, drawn, sandbox, compile_result, run_result, result, fs,
                 procs, spawned, deadline, drained, drain_raised, rmtree_failed, raised, log, debug,
                 client, submissions, directvars>>

\* the view calls generate_hint outside a try statement
hint_unguarded(r) ==
  /\ handler[r].pc = "hint"
  /\ LET h == handler[r] IN
     \E env \in {"None", "text", "raises"}, text \in HintTexts :
       /\ calls' = [calls EXCEPT ![r] =
            Append(@, [fn |-> "generate_hint", code |-> h.code, result |-> h.result,
                       outcome |-> env])]
       /\ IF env = "raises"
          THEN Respond(r, h, handle_exception)
          ELSE /\ handler' = [handler EXCEPT ![r] =
                    With(With(h, "hint", IF env = "text" THEN Some(text) ELSE NoneV),
                         "pc", "persist")]
               /\ UNCHANGED response
  /\ UNCHANGED <<platform, pc, code, drawn, sandbox, compile_result, run_result, result, fs,
                 procs, spawned, deadline, drained, drain_raised, rmtree_failed, raised, log, debug,
                 client, submissions, directvars>>

\* routes.py lines 187-192: generate_hint is called for a result that is not a
\* Success. The stub of llm.py (lines 109-131) returns None; the view is
\* written for a generator that returns None, returns a text or raises
hint(r) ==
  /\ handler[r].pc = "hint"
  /\ LET h == handler[r] IN
     IF h.result.status # "Success"
     THEN \E env \in {"None", "text", "raises"}, text \in HintTexts :
            LET returned == IF env = "text" THEN Some(text) ELSE NoneV
            IN  /\ calls' = [calls EXCEPT ![r] =
                     Append(@, [fn |-> "generate_hint", code |-> h.code, result |-> h.result,
                                outcome |-> env])]
                /\ handler' = [handler EXCEPT ![r] =
                     With(With(h, "hint", returned), "pc", "persist")]
     ELSE /\ handler' = [handler EXCEPT ![r] = With(With(h, "hint", NoneV), "pc", "persist")]
          /\ UNCHANGED calls
  /\ UNCHANGED <<platform, pc, code, drawn, sandbox, compile_result, run_result, result, fs,
                 procs, spawned, deadline, drained, drain_raised, rmtree_failed, raised, log, debug,
                 response, client, submissions, directvars>>

\* db.py lines 93-105: what log_submission does with the outcome of the
\* insert: the id, None for a PyMongoError, any other exception is raised
log_submission(env) ==
  CASE env = "inserted" -> "id"
    [] env = "PyMongoError" -> "None"
    [] env = "other" -> "raised"

\* the view logs the user_id as it was received
persist_raw_user_id(r) ==
  /\ handler[r].pc = "persist"
  /\ LET h == handler[r] IN
     \E env \in {"inserted", "PyMongoError", "other"} :
       /\ calls' = [calls EXCEPT ![r] =
            Append(@, [fn |-> "log_submission", user_id |-> h.body.user_id.v, code |-> h.code,
                       result |-> h.result, fault |-> env,
                       outcome |-> log_submission(env)])]
       /\ client' = Some(Instance(0))
       /\ submissions' = IF env = "inserted"
                         THEN submissions \cup {document(h.body.user_id.v, h.code, h.result)}
                         ELSE submissions
       /\ handler' = [handler EXCEPT ![r] = With(h, "pc", "respond")]
  /\ UNCHANGED <<platform, pc, code, drawn, sandbox, compile_result, run_result, result, fs,
                 procs, spawned, deadline, drained, drain_raised, rmtree_failed, raised, log, debug,
                 response, directvars>>

\* routes.py lines 197-200 and db.py lines 43-54, 61-105: log_submission is
\* called; whatever it returns or raises is dropped
persist(r) ==
  /\ handler[r].pc = "persist"
  /\ LET h == handler[r] IN
     \E env \in {"inserted", "PyMongoError", "other"} :
       /\ calls' = [calls EXCEPT ![r] =
            Append(@, [fn |-> "log_submission", user_id |-> h.user_id, code |-> h.code,
                       result |-> h.result, fault |-> env,
                       outcome |-> log_submission(env)])]
       /\ \E built \in (IF env = "inserted" \/ client # NoneV THEN {TRUE} ELSE BOOLEAN) :
            client' = IF built THEN Some(Instance(0)) ELSE NoneV
       /\ submissions' = IF env = "inserted"
                         THEN submissions \cup {document(h.user_id, h.code, h.result)}
                         ELSE submissions
       /\ handler' = [handler EXCEPT ![r] = With(h, "pc", "respond")]
  /\ UNCHANGED <<platform, pc, code, drawn, sandbox, compile_result, run_result, result, fs,
                 procs, spawned, deadline, drained, drain_raised, rmtree_failed, raised, log, debug,
                 response, directvars>>

\* the view lets an exception of log_submission escape
respond_after_log_failure(r) ==
  /\ handler[r].pc = "respond"
  /\ LET h == handler[r]
         data == [user_id |-> h.user_id, execution |-> h.result, hint |-> h.hint]
         last == calls[r][Len(calls[r])]
     IN  Respond(r, h, IF last.outcome = "raised" THEN handle_exception
                       ELSE ok(Some(data), http_status_for(h.result.status)))
  /\ UNCHANGED <<platform, pc, code, drawn, sandbox, compile_result, run_result, result, fs,
                 procs, spawned, deadline, drained, drain_raised, rmtree_failed, raised, log, debug,
                 calls, client, submissions, directvars>>

\* routes.py lines 205-211: the response is built from the result
respond(r) ==
  /\ handler[r].pc = "respond"
  /\ LET h == handler[r]
         data == [user_id |-> h.user_id, execution |-> h.result, hint |-> h.hint]
     IN  Respond(r, h, ok(Some(data), http_status_for(h.result.status)))
  /\ UNCHANGED <<platform, pc, code, drawn, sandbox, compile_result, run_result, result, fs,
                 procs, spawned, deadline, drained, drain_raised, rmtree_failed, raised, log, debug,
                 calls, client, submissions, directvars>>

\* one step of the Flask application serving request r
ReqStep(r) ==
  \/ health(r)
  \/ bad_request(r)
  \/ not_found(r)
  \/ method_not_allowed(r)
  \/ validate(r)
  \/ execute(r)
  \/ hint(r)
  \/ persist(r)
  \/ respond(r)

NextReq ==
  \/ application_run
  \/ \E r \in Req : ReqStep(r)

SpecReq == Init /\ [][NextReq]_vars

\* ------------------------------------------- log_submission called by threads

\* db.py line 94 and line 51: log_submission enters _get_collection, which
\* reads the global and tests "_client is None"
get_collection_test(t) ==
  /\ worker[t].pc = "idle"
  /\ worker' = [worker EXCEPT ![t].pc = IF client = NoneV THEN "construct" ELSE "return"]
  /\ UNCHANGED <<platform, pc, code, drawn, sandbox, compile_result, run_result, result, fs,
                 procs, spawned, deadline, drained, drain_raised, rmtree_failed, raised, log,
                 reqvars, releases>>

\* db.py line 52: MongoClient(MONGO_URI) is built and stored in the global; a
\* PyMongoError of the constructor ends log_submission with None (lines 101-105)
get_collection_construct(t) ==
  /\ worker[t].pc = "construct"
  /\ \E built \in BOOLEAN :
       IF built
       THEN /\ client' = Some(Instance(t))
            /\ worker' = [worker EXCEPT ![t].pc = "return", ![t].made = TRUE]
       ELSE /\ worker' = [worker EXCEPT ![t].pc = "done", ![t].outcome = Some("None")]
            /\ UNCHANGED client
  /\ UNCHANGED <<platform, pc, code, drawn, sandbox, compile_result, run_result, result, fs,
                 procs, spawned, deadline, drained, drain_raised, rmtree_failed, raised, log,
                 debug, handler, response, calls, submissions, releases>>

\* db.py line 54: the global is read again and its collection returned
get_collection_return(t) ==
  /\ worker[t].pc = "return"
  /\ worker' = [worker EXCEPT ![t].pc = "insert", ![t].used = client]
  /\ UNCHANGED <<platform, pc, code, drawn, sandbox, compile_result, run_result, result, fs,
                 procs, spawned, deadline, drained, drain_raised, rmtree_failed, raised, log,
                 reqvars, releases>>

\* db.py lines 95-105: insert_one, then the id, None or an exception
insert_one(t) ==
  /\ worker[t].pc = "insert"
  /\ \E env \in {"inserted", "PyMongoError", "other"} :
       worker' = [worker EXCEPT ![t].pc = "done", ![t].outcome = Some(log_submission(env))]
  /\ UNCHANGED <<platform, pc, code, drawn, sandbox, compile_result, run_result, result, fs,
                 procs, spawned, deadline, drained, drain_raised, rmtree_failed, raised, log,
                 reqvars, releases>>

\* the request threads of one server process, each inside one call of
\* log_submission, interleaved
NextDb ==
  \E t \in Threads :
    \/ get_collection_test(t)
    \/ get_collection_construct(t)
    \/ get_collection_return(t)
    \/ insert_one(t)

SpecDb == Init /\ [][NextDb]_vars

\* ------------------------------------------------------------------ claims
Statuses == {"Success", "CompilationError", "RuntimeError", "Timeout"}
Returned(i) == pc[i] = "done"
Count(x, s) == Cardinality({k \in 1..Len(s) : s[k] = x})
\* the text holds a character that is not whitespace
NonBlank(s) == \E k \in 1..Len(s) : ~IsSpace(s[k])

\* C1: a call that returns yields a result whose status is one of Success,
\* CompilationError, RuntimeError, Timeout, whatever the environment did; no
\* result exists before the try block has produced it.
C1_OneOfFourStatuses ==
  \A i \in Inv :
    /\ Returned(i) => result[i].status \in Statuses
    /\ pc[i] \notin {"finally", "done"} => result[i] = NoResult

\* a missing java executable, resolved to a status after a clean compile
C1_Witness ==
  \E i \in Inv :
    /\ Returned(i) /\ result[i].status = "RuntimeError"
    /\ result[i].error_message = Some(<<"Java toolchain not found on PATH: ", "java">>)

\* C2: execute_java_code never raises to its caller: every fault between call
\* entry and return, sandbox directory creation included, becomes a result.
C2_NeverRaises == \A i \in Inv : pc[i] # "raised"

C4_DeadlineIsTimeout ==
  \A i \in Inv : (Returned(i) /\ deadline[i] # "none") => result[i] = timeout_result

\* C5: after an invocation whose program exceeded the run deadline returns
\* Timeout, no process of that invocation is alive.
C5_NoProcessAfterTimeout ==
  \A i \in Inv :
    (Returned(i) /\ deadline[i] = "run" /\ result[i].status = "Timeout")
      => {q \in procs : q.inv = i} = {}

Stages(s) == SelectSeq(s, LAMBDA x : x \in {"write", "compile", "run"})
IsPrefix(s, t) == Len(s) <= Len(t) /\ SubSeq(t, 1, Len(s)) = s

\* C6: within one invocation the stages run in the order write, compile, run,
\* each at most once, and the program is launched only after javac finished
\* within its deadline with exit status 0.
C6_StagesInOrder ==
  \A i \in Inv :
    /\ IsPrefix(Stages(log[i]), <<"write", "compile", "run">>)
    /\ Count("run", log[i]) = 1 =>
         /\ deadline[i] # "compile"
         /\ compile_result[i] # NoneV
         /\ \A cr \in compile_result[i] : cr.returncode = 0

\* an invocation that launched the program and returned
C6_Witness ==
  \E i \in Inv : Returned(i) /\ Stages(log[i]) = <<"write", "compile", "run">>

C8_NoFieldLeak ==
  \A i \in Inv :
    pc[i] \in {"finally", "done"} =>
      LET r == result[i] IN
      /\ "exception_type" \in DOMAIN r => r.status = "RuntimeError"
      /\ "line_number" \in DOMAIN r => r.status \in {"CompilationError", "RuntimeError"}
      /\ r.status \in {"CompilationError", "Timeout"} => r.output = NoneV
      /\ r.status = "Success" => r.error_message = NoneV

\* a Timeout whose drain had read what the program printed
C8_Witness ==
  \E i \in Inv :
    /\ Returned(i) /\ result[i].status = "Timeout"
    /\ drained[i] = Some(<<"Hello", "\n">>)

\* C9: every acquired sandbox is released exactly once: on every path the
\* cleanup runs once, after the result was determined, and only then does
\* the call return.
C9_CleanupExactlyOnce ==
  \A i \in Inv :
    LET n == Len(log[i]) IN
    /\ Returned(i) =>
         /\ Count("cleanup", log[i]) = 1
         /\ n >= 2 /\ log[i][n] = "cleanup" /\ log[i][n - 1] = "result"
    /\ ~Returned(i) => Count("cleanup", log[i]) = 0

\* an unanticipated exception (OSError while writing Main.java), cleaned up
C9_Witness ==
  \E i \in Inv :
    /\ Returned(i)
    /\ "exception_type" \in DOMAIN result[i]
    /\ result[i].exception_type = Some(<<"OSError">>)
    /\ log[i] = <<"write", "result", "cleanup">>

Acquired(i) == sandbox[i] # NoneV

C11_NoInterference ==
  \A i \in Inv :
    (\A j \in Inv \ {i} : drawn[j] # drawn[i]) =>
      /\ pc[i] \in {"write", "compile", "run"} => fs[Dir(i)].exists
      /\ pc[i] \in {"compile", "run"} => fs[Dir(i)].src = Some(code[i])
      /\ pc[i] = "run" => fs[Dir(i)].cls = Some(code[i])

\* C12: every invocation of execute_java_code eventually returns a result,
\* whatever the submitted program does.
C12_EventuallyReturns == \A i \in Inv : (pc[i] # "idle") ~> Returned(i)

\* the executables of the Java toolchain the pipeline launches
Toolchain == {<<"javac">>, <<"java">>}

\* C13: every fault inside the pipeline other than an expired deadline is
\* returned as RuntimeError with line_number and output absent, and with
\* exception_type "EnvironmentError" when the javac or java executable is
\* missing and the name of the fault's own kind otherwise.
C13_FaultIsRuntimeError ==
  \A i \in Inv : \A e \in raised[i] :
    e.kind # "TimeoutExpired" =>
      /\ pc[i] \in {"finally", "done"}
      /\ result[i].status = "RuntimeError"
      /\ result[i].line_number = NoneV
      /\ result[i].output = NoneV
      /\ result[i].exception_type =
           IF e.kind = "FileNotFoundError" /\ e.msg \in Toolchain
           THEN Some(<<"EnvironmentError">>) ELSE Some(<<e.kind>>)

\* C14: a failure while deleting the sandbox never changes the outcome: once
\* the try block has fixed the result, the finally clause leaves it as it is
\* whether shutil.rmtree succeeds or fails, and the call returns rather than
\* raises.
C14_CleanupKeepsResult ==
  [][\A i \in Inv :
       pc[i] \in {"finally", "done"} =>
         /\ result'[i] = result[i]
         /\ pc'[i] \in {"finally", "done"}]_vars

\* a Success whose sandbox shutil.rmtree failed to delete
C14_Witness ==
  \E i \in Inv :
    /\ Returned(i) /\ rmtree_failed[i] /\ fs[Dir(i)].exists
    /\ result[i] = [status |-> "Success", error_message |-> NoneV,
                    output |-> Some(<<"Hello">>)]

FaultingRun(i, rr) ==
  /\ pc[i] \in {"finally", "done"} /\ rr \in run_result[i]
  /\ ~rr.timed_out /\ result[i].status = "RuntimeError"

\* C16: for a RuntimeError produced by a faulting run, error_message is the
\* first line of the program's stderr, or "Runtime error" when stderr is
\* empty; output is the stripped stdout when that is non-empty and absent
\* otherwise.
C16_FirstLineOfStderr ==
  \A i \in Inv : \A rr \in run_result[i] :
    FaultingRun(i, rr) =>
      /\ result[i].error_message =
           Some(IF rr.stderr = <<>> THEN <<"Runtime error">> ELSE first_line(rr.stderr))
      /\ result[i].output =
           IF strip(rr.stdout) # <<>> THEN Some(strip(rr.stdout)) ELSE NoneV

\* C16 (amended): error_message is the first line of the program's stderr
\* once its surrounding whitespace is removed, or "Runtime error" when stderr
\* is empty or whitespace only; output is the stripped stdout when that is
\* non-empty and absent otherwise.
C16_FirstLineOfStrippedStderr ==
  \A i \in Inv : \A rr \in run_result[i] :
    FaultingRun(i, rr) =>
      /\ result[i].error_message =
           Some(IF NonBlank(rr.stderr) THEN first_line(strip(rr.stderr))
                ELSE <<"Runtime error">>)
      /\ result[i].output =
           IF strip(rr.stdout) # <<>> THEN Some(strip(rr.stdout)) ELSE NoneV

\* output printed before the fault is kept, the message skips the blank line
\* stderr begins with
C16_Witness ==
  \E i \in Inv : \E rr \in run_result[i] :
    /\ FaultingRun(i, rr) /\ Returned(i)
    /\ rr.stdout = <<"Hello", "\n">> /\ rr.stderr = <<"\n", "warn", "\n", "more">>
    /\ result[i].error_message = Some(<<"warn">>)
    /\ result[i].output = Some(<<"Hello">>)

\* t is s without its leading and trailing whitespace
Trimmed(t, s) ==
  /\ t = <<>> \/ (~IsSpace(t[1]) /\ ~IsSpace(t[Len(t)]))
  /\ \E lo \in 1..(Len(s) + 1) :
       /\ lo + Len(t) - 1 <= Len(s)
       /\ SubSeq(s, lo, lo + Len(t) - 1) = t
       /\ \A k \in 1..Len(s) : (k < lo \/ k >= lo + Len(t)) => IsSpace(s[k])

\* C17: a Success is returned only after javac exited 0 and the program
\* completed within the run deadline; its output is the program's stdout
\* without leading and trailing whitespace, its error_message is absent.
C17_Success ==
  \A i \in Inv :
    (pc[i] \in {"finally", "done"} /\ result[i].status = "Success") =>
      /\ deadline[i] = "none"
      /\ \E cr \in compile_result[i] : cr.returncode = 0
      /\ \E rr \in run_result[i] :
           /\ ~rr.timed_out
           /\ \E out \in result[i].output : Trimmed(out, rr.stdout)
      /\ result[i].error_message = NoneV
      /\ Stages(log[i]) = <<"write", "compile", "run">>

\* the program printed Hello and a newline
C17_Witness ==
  \E i \in Inv : \E rr \in run_result[i] :
    /\ Returned(i) /\ rr.stdout = <<"Hello", "\n">>
    /\ result[i] = [status |-> "Success", error_message |-> NoneV,
                    output |-> Some(<<"Hello">>)]

\* the positions of text s where "Main.java:<digits>:" stands at a word boundary
Occurrences(s) == {k \in 1..Len(s) : JavacLineAt(s, k)}

\* C18: the line_number of a CompilationError is the line of the first
\* "Main.java:<line>:" occurrence of the diagnostic text in text order, not of
\* a later one and not the least or greatest line; it is absent when the
\* text holds no occurrence.
C18_FirstJavacLine ==
  \A i \in Inv :
    (pc[i] \in {"finally", "done"} /\ result[i].status = "CompilationError") =>
      \A text \in result[i].error_message :
        /\ Occurrences(text) = {} <=> result[i].line_number = NoneV
        /\ \A k \in Occurrences(text) :
             (\A j \in Occurrences(text) : k <= j)
               => result[i].line_number = Some(JavacLineGroup(text, k))

\* diagnostics for the lines 5, 3 and 12, in that order: 5 is reported
C18_Witness ==
  \E i \in Inv : \E cr \in compile_result[i] :
    /\ Returned(i) /\ cr.stderr = DIAGS
    /\ Cardinality(Occurrences(strip(cr.stderr))) = 3
    /\ result[i].line_number = Some(5)

\* the positions of text s where an exception-header line naming a type that
\* holds "Exception" or "Error" begins
Headers(s) == {k \in 1..Len(s) : RuntimeExcAt(s, k)}

\* the lexemes of name after its last "."
AfterLastDot(name) ==
  LET dots == {k \in 1..Len(name) : name[k] = "."}
      from == IF dots = {} THEN 1 ELSE (CHOOSE k \in dots : \A j \in dots : j <= k) + 1
  IN  SubSeq(name, from, Len(name))

\* C19: when the stderr of a faulting run holds an exception-header line
\* naming a type that contains "Exception" or "Error", exception_type is the
\* segment after the final "." of the type named by the first such line; it
\* holds no package separator.
C19_SimpleExceptionName ==
  \A i \in Inv : \A rr \in run_result[i] :
    FaultingRun(i, rr) =>
      LET text == strip(rr.stderr) IN
      /\ Headers(text) = {} <=> result[i].exception_type = NoneV
      /\ \A k \in Headers(text) :
           (\A j \in Headers(text) : k <= j) =>
             result[i].exception_type = Some(AfterLastDot(RuntimeExcGroup(text, k)))
      /\ \A name \in result[i].exception_type : \A k \in 1..Len(name) : name[k] # "."

\* two header lines: the nested type of the first is reported without a.b.
C19_Witness ==
  \E i \in Inv : \E rr \in run_result[i] :
    /\ FaultingRun(i, rr) /\ Returned(i)
    /\ Cardinality(Headers(strip(rr.stderr))) = 2
    /\ result[i].exception_type = Some(<<"Outer", "$", "InnerException">>)

\* position k of text s begins "(Main.java:<digits>)" on a stack-frame line,
\* a line whose first lexemes after its indentation are "at" and a space
SourceFrameAt(s, k) ==
  LET d == k + Len(FRAME_MID)
      e == RunEnd(s, d, "d")
      starts == {j \in 1..k : j = 1 \/ s[j - 1] = "\n"}
      line == CHOOSE j \in starts : \A x \in starts : x <= j
      at == RunEnd(s, line, "s")
  IN  /\ Lit(s, k, FRAME_MID)
      /\ e > d /\ e <= Len(s) /\ s[e] = ")"
      /\ at < k /\ Lit(s, at, <<"at", " ">>)
      /\ \A x \in line..k : s[x] # "\n"

SourceFrameLine(s, k) ==
  LET d == k + Len(FRAME_MID) IN ToInt(SubSeq(s, d, RunEnd(s, d, "d") - 1))

SourceFrames(s) == {k \in 1..Len(s) : SourceFrameAt(s, k)}

\* C20: the line_number of a faulting run is the line of the first stack
\* frame, in text order, that references Main.java, whatever method,
\* constructor, initializer, lambda or nested class the frame belongs to;
\* frames of library code are skipped.
C20_FirstSourceFrame ==
  \A i \in Inv : \A rr \in run_result[i] :
    FaultingRun(i, rr) =>
      LET text == strip(rr.stderr) IN
      /\ SourceFrames(text) = {} <=> result[i].line_number = NoneV
      /\ \A k \in SourceFrames(text) :
           (\A j \in SourceFrames(text) : k <= j) =>
             result[i].line_number = Some(SourceFrameLine(text, k))

\* the positions of text s where _RUNTIME_LINE_RE matches
Frames(s) == {k \in 1..Len(s) : RuntimeLineAt(s, k)}

\* C21: parsing only enriches the result.  The status is fixed by the exit
\* status and the stripped stderr, whether or not a parser matches; an
\* unmatched exception header gives no exception_type, an unmatched frame or
\* compiler line gives no line_number, and each of the two fields of a
\* RuntimeError is present or absent by its own pattern alone.
C21_ParsingIsBestEffort ==
  \A i \in Inv :
    pc[i] \in {"finally", "done"} =>
      /\ \A rr \in run_result[i] :
           (~rr.timed_out /\ (rr.returncode # 0 \/ NonBlank(rr.stderr))) =>
             /\ result[i].status = "RuntimeError"
             /\ result[i].exception_type = NoneV <=> Headers(strip(rr.stderr)) = {}
             /\ result[i].line_number = NoneV <=> Frames(strip(rr.stderr)) = {}
      /\ \A cr \in compile_result[i] :
           cr.returncode # 0 =>
             /\ result[i].status = "CompilationError"
             /\ \A text \in result[i].error_message :
                  result[i].line_number = NoneV <=> Occurrences(text) = {}

\* a frame of Main.java under a header that names no Exception or Error:
\* line_number is present, exception_type is absent
C21_Witness ==
  \E i \in Inv : \E rr \in run_result[i] :
    /\ Returned(i) /\ rr.stderr = FRAME_ONLY
    /\ result[i].status = "RuntimeError"
    /\ result[i].exception_type = NoneV
    /\ result[i].line_number = Some(9)

\* invocations i and j met the same environment behaviour: the same exits of
\* javac and of the program, the same expired deadline, the same fault
SameEnvironment(i, j) ==
  /\ compile_result[i] = compile_result[j]
  /\ run_result[i] = run_result[j]
  /\ deadline[i] = deadline[j]
  /\ raised[i] = raised[j]

\* the sandbox of invocation j holds neither a source file nor a class
EmptySandbox(j) == fs[Dir(j)].src = NoneV /\ fs[Dir(j)].cls = NoneV

Responded(r) == response[r] # NoneV
Resp(r) == CHOOSE x \in response[r] : TRUE
IsEnvelope(b) == DOMAIN b = {"success", "data", "error"}
Data(r) == CHOOSE d \in Resp(r).body.data : TRUE
Finished(r) == handler[r].pc = "done"
EngineReturned(r) == "result" \in DOMAIN handler[r]
CallsTo(r, f) == {k \in DOMAIN calls[r] : calls[r][k].fn = f}

\* the response carries the result the engine returned, in a success envelope,
\* with the status that belongs to the result's status
CarriesResult(r) ==
  /\ Responded(r)
  /\ IsEnvelope(Resp(r).body)
  /\ Resp(r).body.success
  /\ Resp(r).body.data # NoneV
  /\ Data(r).execution = handler[r].result
  /\ Resp(r).status = http_status_for(handler[r].result.status)

C24_PersistenceNeverAltersOutcome ==
  \A r \in Req :
    /\ \A k \in CallsTo(r, "log_submission") :
         calls[r][k].fault = "PyMongoError" => calls[r][k].outcome = "None"
    /\ (Finished(r) /\ CallsTo(r, "log_submission") # {}) =>
         /\ CarriesResult(r)
         /\ \A k \in CallsTo(r, "log_submission") : calls[r][k].result = Data(r).execution

\* a request answered after log_submission raised, the result being a Timeout
C24_Witness ==
  \E r \in Req :
    /\ Finished(r)
    /\ \E k \in CallsTo(r, "log_submission") : calls[r][k].outcome = "raised"
    /\ Resp(r).status = HTTP_REQUEST_TIMEOUT

\* C25: for each of the four result variants the response is a success
\* envelope (success true, error null) with an HTTP status that is not an
\* error status (below 400), carrying the result unchanged.
C25_NonErrorStatus ==
  \A r \in Req :
    (Finished(r) /\ EngineReturned(r)) =>
      /\ IsEnvelope(Resp(r).body)
      /\ Resp(r).body.success
      /\ Resp(r).body.error = NoneV
      /\ Data(r).execution = handler[r].result
      /\ Resp(r).status < HTTP_BAD_REQUEST

\* C26: the status of the response to a valid request is 408 when the
\* engine's status is Timeout and 200 when it is Success, CompilationError or
\* RuntimeError, whatever the hint and whatever log_submission did.
C26_StatusFromEngineStatus ==
  \A r \in Req :
    (Finished(r) /\ EngineReturned(r)) =>
      /\ handler[r].result.status \in {"Success", "CompilationError", "RuntimeError", "Timeout"}
      /\ Resp(r).status = IF handler[r].result.status = "Timeout" THEN 408 ELSE 200

\* a Timeout answered with a hint after the insert failed
C26_Witness ==
  \E r \in Req :
    /\ Finished(r) /\ EngineReturned(r)
    /\ handler[r].result.status = "Timeout"
    /\ handler[r].hint # NoneV
    /\ \E k \in CallsTo(r, "log_submission") : calls[r][k].fault # "inserted"
    /\ Resp(r).status = 408

\* a field that is absent, empty or whitespace only
Blank(f) == f.t = "missing" \/ (f.t = "str" /\ strip(f.v) = <<>>)

\* a body that is empty, no JSON, an empty object, or an object whose user_id
\* or code is absent, empty or whitespace only
Rejected(body) ==
  \/ body.t \in {"none", "falsy"}
  \/ body.t = "object" /\ (Blank(body.user_id) \/ Blank(body.code))

\* C27: a submit-code request whose body is empty, no JSON, an empty object,
\* or has a user_id or code that is absent, empty or whitespace only, is
\* answered with status 400 and a failure envelope without any collaborator
\* being called; user_id is checked before code and the error names the field.
C27_InvalidBodyIs400 ==
  \A r \in Req :
    (Finished(r) /\ "body" \in DOMAIN handler[r] /\ Rejected(handler[r].body)) =>
      LET body == handler[r].body
          err == CHOOSE e \in Resp(r).body.error : TRUE
      IN  /\ Resp(r).status = HTTP_BAD_REQUEST
          /\ IsEnvelope(Resp(r).body)
          /\ ~Resp(r).body.success
          /\ calls[r] = <<>>
          /\ body.t = "object" =>
               /\ "details" \in DOMAIN err
               /\ err.details.field \in {"user_id", "code"}
               /\ Blank(body.user_id) => err.details.field = "user_id"
               /\ (body.user_id.t = "str" /\ ~Blank(body.user_id)) => err.details.field = "code"

\* C28: when the engine raises, the response is 500 with a failure envelope
\* (success false, data null, error populated) and neither generate_hint nor
\* log_submission is called for the request.
C28_EngineRaises ==
  \A r \in Req :
    (\E k \in CallsTo(r, "execute_java_code") : calls[r][k].raised) =>
      /\ Finished(r)
      /\ Resp(r).status = HTTP_INTERNAL_SERVER_ERROR
      /\ IsEnvelope(Resp(r).body)
      /\ ~Resp(r).body.success
      /\ Resp(r).body.data = NoneV
      /\ Resp(r).body.error # NoneV
      /\ CallsTo(r, "generate_hint") = {}
      /\ CallsTo(r, "log_submission") = {}

\* a request whose engine call raised
C28_Witness ==
  \E r \in Req :
    /\ Finished(r)
    /\ \E k \in CallsTo(r, "execute_java_code") : calls[r][k].raised
    /\ (CHOOSE e \in Resp(r).body.error : TRUE).code = "EXECUTION_FAILED"

\* C29: every response body has the keys success, data and error; success
\* true comes with data populated and error null, success false with error
\* populated and data null.
C29_Envelope ==
  \A r \in Req :
    Responded(r) =>
      LET b == Resp(r).body
      IN  /\ IsEnvelope(b)
          /\ b.success => (b.data # NoneV /\ b.error = NoneV)
          /\ ~b.success => (b.error # NoneV /\ b.data = NoneV)

\* the calls of a request that went through, in order
CallOrder(r) == [k \in DOMAIN calls[r] |-> calls[r][k].fn]

\* C30: a valid request goes through validate, execute, hint, log, respond in
\* that order: execute_java_code is called once, then generate_hint if at all,
\* then log_submission once, with the trimmed user_id, the code that was
\* executed and the result that is placed unchanged in the response.
C30_FixedOrder ==
  \A r \in Req :
    (Finished(r) /\ EngineReturned(r)) =>
      LET h == handler[r]
          last == calls[r][Len(calls[r])]
      IN  /\ CallOrder(r) \in {<<"execute_java_code", "log_submission">>,
                               <<"execute_java_code", "generate_hint", "log_submission">>}
          /\ h.user_id = strip(h.body.user_id.v)
          /\ calls[r][1].code = strip(h.body.code.v)
          /\ last.user_id = h.user_id
          /\ last.code = calls[r][1].code
          /\ last.result = h.result
          /\ IsEnvelope(Resp(r).body)
          /\ Resp(r).body.data # NoneV
          /\ Data(r).execution = last.result
          /\ Data(r).user_id = h.user_id

\* a request with surrounding whitespace in user_id and code, answered
\* after all three collaborators were called
C30_Witness ==
  \E r \in Req :
    /\ Finished(r) /\ EngineReturned(r)
    /\ Len(calls[r]) = 3
    /\ handler[r].body.user_id.v # handler[r].user_id
    /\ handler[r].body.code.v # handler[r].code


\* C31: when the run deadline expires, the process group of the launched
\* program is terminated first, and only then one drain of the pipes is made;
\* the drain is bounded by its own timeout, its failure or expiry is swallowed,
\* and the stage reports timed_out whatever the drain read.
C31_KillThenOneDrain ==
  \A i \in Inv :
    /\ pc[i] = "drain" => KillTargets(i) = {}
    /\ Count("drain", log[i]) <= 1
    /\ (Returned(i) /\ deadline[i] = "run") =>
         /\ \E k \in 1..(Len(log[i]) - 1) : log[i][k] = "kill" /\ log[i][k + 1] = "drain"
         /\ Count("drain", log[i]) = 1
         /\ raised[i] = NoneV
         /\ run_result[i] # NoneV
         /\ (CHOOSE rr \in run_result[i] : TRUE).timed_out


\* C32: when the compile deadline expires, the compiler process and every
\* process it started are terminated before the invocation returns.
C32_CompilerTreeGone ==
  \A i \in Inv :
    (Returned(i) /\ deadline[i] = "compile") => {q \in procs : q.inv = i} = {}


C34_OneClient ==
  /\ Cardinality({t \in Threads : worker[t].made}) <= 1
  /\ \A t, u \in Threads :
       (worker[t].used # NoneV /\ worker[u].used # NoneV) => worker[t].used = worker[u].used


C36_MarkerOnlyForToolchain ==
  \A i \in Inv : \A e \in raised[i] :
    (/\ Returned(i)
     /\ result[i].status = "RuntimeError"
     /\ result[i].exception_type = Some(<<"EnvironmentError">>))
      => e.msg \in Toolchain


\* C37: the text compiled is character for character the code submitted in
\* the request (execute_java_code writes its argument to Main.java as it is,
\* so the text compiled is the argument it is called with), and a line_number
\* in the result therefore counts lines of the code field as the client sent it.
C37_CompiledTextIsSubmittedCode ==
  \A r \in Req : \A k \in CallsTo(r, "execute_java_code") :
    calls[r][k].code = handler[r].body.code.v

\* C38: execute_java_code is called only with a non-empty string that has no
\* leading and no trailing whitespace, whatever the shape of the request body
\* and the types of user_id and code.
C38_EngineArgumentIsTrimmed ==
  \A r \in Req : \A k \in CallsTo(r, "execute_java_code") :
    LET c == calls[r][k].code
    IN  /\ handler[r].body.t = "object"
        /\ handler[r].body.code.t = "str"
        /\ c # <<>>
        /\ ~IsSpace(c[1])
        /\ ~IsSpace(c[Len(c)])

\* the engine called for a request whose code came with whitespace around it
C38_Witness ==
  \E r \in Req : \E k \in CallsTo(r, "execute_java_code") :
    /\ IsSpace(handler[r].body.code.v[1])
    /\ calls[r][k].code = <<"class", " ", "Main">>


InFlight(j) == Acquired(j) /\ pc[j] \notin {"idle", "create", "done", "raised"}

====
